---- MODULE Spec2Model ----
(***************************************************************************)
(* DatasetReconciler (internal/controller/dataset_controller.go).          *)
(*                                                                         *)
(* The cluster state store holds one Dataset, one DataPlugin descriptor    *)
(* and the child documents; the plugin manifest templates are files.       *)
(* A Reconcile invocation is a process that takes one step per store call, *)
(* the local computation between two store calls belonging to the step     *)
(* that ends with the next call.  Other writers of the store act between   *)
(* those steps.                                                            *)
(***************************************************************************)
EXTENDS Integers, Sequences, FiniteSets, TLC

\* ------------------------------------------------------------------ bounds
MaxSubsets == 1          \* longest subset list of a Dataset
MaxInvocations == 2      \* Reconcile invocations in one behaviour
MaxExternalWrites == 1   \* writes of other clients to the child documents

\* --------------------------------------------------------------- constants
Procs == {"r1", "r2"}                \* reconcile workers
DatasetName == "ds-1"
DatasetNamespace == "ns1"
SecondDataset == "ds-2"              \* another Dataset, for two workers
DatasetNames == {DatasetName, SecondDataset}
PluginName == "p1"
CompleteNotifyURL == "http://notify" \* config.GetCompleteNotifyURL()
Nil == "nil"                         \* the nil error
DatasetUnready_Ready == "READY"

DatasetUnready == "UNREADY"

File == {"", "a"}
Subset == [train : File, test : File]
SubsetLists == UNION {[1..n -> Subset] : n \in 0..MaxSubsets}

\* Plugin.Parameters blobs
ParameterBlobs == {"null", "", "[1]", "{}", "{\"x\":1}"}

\* ---------------------------------------------------------- pure functions

\* isSubsetInfoValid: some subset has both a train and a test file
RECURSIVE SubsetLoop(_, _)
SubsetLoop(subsets, i) ==
    IF i > Len(subsets) THEN FALSE
    ELSE IF subsets[i].train # "" /\ subsets[i].test # "" THEN TRUE
    ELSE SubsetLoop(subsets, i + 1)

isSubsetInfoValid(subsets) == SubsetLoop(subsets, 1)

\* client.IgnoreNotFound
IgnoreNotFound_Identity(err) == err

IgnoreNotFound_All(err) == Nil

IgnoreNotFound(err) == IF err = "NotFound" THEN Nil ELSE err

\* filepath.Join("plugins", DatasetClass, Provider, "plugin.yaml")
PluginPath(dataPlugin) ==
    <<"plugins", dataPlugin.class, dataPlugin.provider, "plugin.yaml">>

\* parameter values are tagged: a JSON number or a string
NumVal(n) == [tag |-> "num", num |-> n, str |-> ""]
StrVal(s) == [tag |-> "str", num |-> 0, str |-> s]
EmptyMap == [k \in {} |-> NumVal(0)]
NilMap == [isNil |-> TRUE, m |-> EmptyMap]

\* json.Unmarshal([]byte(blob), &parameters), parameters a nil map before
\* the call: JSON null leaves the map nil, an object allocates it
jsonUnmarshal(blob) ==
    CASE blob = "null" -> [err |-> Nil, parameters |-> NilMap]
      [] blob = "" -> [err |-> "SyntaxError", parameters |-> NilMap]
      [] blob = "[1]" -> [err |-> "UnmarshalTypeError", parameters |-> NilMap]
      [] blob = "{}" -> [err |-> Nil, parameters |-> [isNil |-> FALSE, m |-> EmptyMap]]
      [] blob = "{\"x\":1}" ->
            [err |-> Nil,
             parameters |-> [isNil |-> FALSE, m |-> [k \in {"x"} |-> NumVal(1)]]]

\* parameters[key] = value; a write to a nil map panics
MapAssign(parameters, key, value) ==
    IF parameters.isNil
    THEN [panic |-> TRUE, parameters |-> parameters]
    ELSE [panic |-> FALSE,
          parameters |->
             [isNil |-> FALSE,
              m |-> [k \in DOMAIN parameters.m \cup {key} |->
                        IF k = key THEN value ELSE parameters.m[k]]]]

\* textual form of a parameter value
ToText(v) == IF v.tag = "num" THEN ToString(v.num) ELSE v.str

\* manifest templates: the placeholders of the text, whether the text is
\* YAML once rendered, and the namespace and controller owner it declares
Template(ph, ok, ns, owner) ==
    [exists |-> TRUE, placeholders |-> ph, wellFormed |-> ok,
     namespace |-> ns, owner |-> owner]
NoFile == [exists |-> FALSE, placeholders |-> {}, wellFormed |-> FALSE,
           namespace |-> "", owner |-> ""]
Templates ==
    { Template({"x", "completeNotifyUrl"}, TRUE, "", ""),
      Template({"completeNotifyUrl"}, TRUE, "other", ""),
      Template({"completeNotifyUrl"}, FALSE, "", ""),
      Template({"completeNotifyUrl"}, TRUE, "", "other-controller") }

\* parser.ReplaceTemplate: every placeholder is replaced by the text of its
\* parameter; a placeholder without a parameter is an error
ReplaceTemplate(template, m) ==
    IF template.placeholders \subseteq DOMAIN m
    THEN [err |-> Nil,
          text |-> [template EXCEPT !.placeholders = {}] @@
                   [content |-> [k \in template.placeholders |-> ToText(m[k])]]]
    ELSE [err |-> "TemplateResolutionError",
          text |-> [template EXCEPT !.placeholders = {}] @@
                   [content |-> EmptyMap]]

\* yaml decode of the rendered text into an unstructured document
NoObj == [exists |-> FALSE, kind |-> "", name |-> "", namespace |-> "",
          owner |-> "", content |-> EmptyMap, rv |-> 0]

Decode(text) ==
    IF text.wellFormed
    THEN [err |-> Nil,
          obj |-> [exists |-> TRUE, kind |-> "Job", name |-> "loader",
                   namespace |-> text.namespace, owner |-> text.owner,
                   content |-> text.content, rv |-> 0]]
    ELSE [err |-> "DecodeError", obj |-> NoObj]

\* unstructuredObj.SetNamespace
SetNamespace_Skip(obj, ns) == obj

SetNamespace(obj, ns) == [obj EXCEPT !.namespace = ns]

\* ctrl.SetControllerReference: refuses an object that another controller owns
SetControllerReference_Skip(owner, obj) == [err |-> Nil, obj |-> obj]

SetControllerReference(owner, obj) ==
    IF obj.owner # "" /\ obj.owner # owner.name
    THEN [err |-> "AlreadyOwnedError", obj |-> obj]
    ELSE [err |-> Nil, obj |-> [obj EXCEPT !.owner = owner.name]]

\* obj.SetResourceVersion
SetResourceVersion_Skip(obj, rv) == obj

SetResourceVersion(obj, rv) == [obj EXCEPT !.rv = rv]

\* replacePlaceholders: unmarshal the parameters, add completeNotifyUrl,
\* render the template
replacePlaceholders(yamlStr, dataset) ==
    LET u == jsonUnmarshal(dataset.parameters)
        a == MapAssign(u.parameters, "completeNotifyUrl", StrVal(CompleteNotifyURL))
        t == ReplaceTemplate(yamlStr, a.parameters.m)
    IN  IF u.err # Nil
        THEN [err |-> u.err, panic |-> FALSE, step |-> "unmarshal", text |-> t.text]
        ELSE IF a.panic
        THEN [err |-> Nil, panic |-> TRUE, step |-> "inject", text |-> t.text]
        ELSE IF t.err # Nil
        THEN [err |-> t.err, panic |-> FALSE, step |-> "render", text |-> t.text]
        ELSE [err |-> Nil, panic |-> FALSE, step |-> "", text |-> t.text]

\* applyYAML up to the call of applyClient, the file already read
applyYAMLBuild(yamlStr, dataset) ==
    LET r == replacePlaceholders(yamlStr, dataset)
        d == Decode(r.text)
        o == SetControllerReference(dataset, SetNamespace(d.obj, dataset.namespace))
    IN  IF r.err # Nil \/ r.panic
        THEN [err |-> r.err, panic |-> r.panic, step |-> r.step, obj |-> NoObj]
        ELSE IF d.err # Nil
        THEN [err |-> d.err, panic |-> FALSE, step |-> "decode", obj |-> NoObj]
        ELSE IF o.err # Nil
        THEN [err |-> o.err, panic |-> FALSE, step |-> "setOwner", obj |-> NoObj]
        ELSE [err |-> Nil, panic |-> FALSE, step |-> "", obj |-> o.obj]

\* ------------------------------------------------------------------- store
Namespaces == {"", DatasetNamespace, "other"}
ChildKeys == {[kind |-> "Job", name |-> "loader", namespace |-> ns] : ns \in Namespaces}

\* client.ObjectKey of a document, with its kind
ObjectKey(obj) == [kind |-> obj.kind, name |-> obj.name, namespace |-> obj.namespace]

\* a document as another client writes it
ExternalDoc(key, rv) ==
    [exists |-> TRUE, kind |-> key.kind, name |-> key.name,
     namespace |-> key.namespace, owner |-> "other-controller",
     content |-> [k \in {"completeNotifyUrl"} |-> "http://elsewhere"], rv |-> rv]

NoDataset == [exists |-> FALSE, name |-> DatasetName, namespace |-> DatasetNamespace,
              subsets |-> <<>>, loadPlugin |-> FALSE, pluginName |-> PluginName,
              parameters |-> "null", state |-> "", rv |-> 0]
Absent(name) == [NoDataset EXCEPT !.name = name]
NoPlugin == [exists |-> FALSE, class |-> "", provider |-> ""]
Descriptors == {NoPlugin,
                [exists |-> TRUE, class |-> "text", provider |-> "acme"],
                [exists |-> TRUE, class |-> "text", provider |-> "none"]}
TemplatePath == <<"plugins", "text", "acme", "plugin.yaml">>

\* r.Get of a child document
StoreGet(docs, key) ==
    IF docs[key].exists
    THEN [err |-> Nil, obj |-> docs[key]]
    ELSE [err |-> "NotFound", obj |-> NoObj]

StoreCreate_Overwrite(docs, rev, obj) ==
    [err |-> Nil,
     docs |-> [docs EXCEPT ![ObjectKey(obj)] = [obj EXCEPT !.exists = TRUE, !.rv = rev + 1]],
     rev |-> rev + 1]

\* r.Create: the store refuses an identity it already holds
StoreCreate(docs, rev, obj) ==
    LET key == ObjectKey(obj) IN
    IF docs[key].exists
    THEN [err |-> "AlreadyExists", docs |-> docs, rev |-> rev]
    ELSE [err |-> Nil,
          docs |-> [docs EXCEPT ![key] = [obj EXCEPT !.exists = TRUE, !.rv = rev + 1]],
          rev |-> rev + 1]

\* r.Update: the store refuses a version token that is not the current one;
\* an update that changes nothing writes nothing
StoreUpdate(docs, rev, obj) ==
    LET key == ObjectKey(obj) IN
    IF ~docs[key].exists
    THEN [err |-> "NotFound", docs |-> docs, rev |-> rev]
    ELSE IF docs[key].rv # obj.rv
    THEN [err |-> "Conflict", docs |-> docs, rev |-> rev]
    ELSE IF docs[key] = obj
    THEN [err |-> Nil, docs |-> docs, rev |-> rev]
    ELSE [err |-> Nil,
          docs |-> [docs EXCEPT ![key] = [obj EXCEPT !.rv = rev + 1]],
          rev |-> rev + 1]

\* r.Status().Update: writes the status of the Dataset and nothing else of
\* it; the store refuses a version token that is not the current one, and a
\* write that changes nothing writes nothing
StoreStatusUpdate_Spec(stored, local) ==
    IF ~stored.exists THEN [err |-> "NotFound", stored |-> stored]
    ELSE IF stored.rv # local.rv THEN [err |-> "Conflict", stored |-> stored]
    ELSE [err |-> Nil,
          stored |-> [local EXCEPT !.loadPlugin = FALSE, !.rv = stored.rv + 1]]

StoreStatusUpdate(stored, local) ==
    IF ~stored.exists THEN [err |-> "NotFound", stored |-> stored]
    ELSE IF stored.rv # local.rv THEN [err |-> "Conflict", stored |-> stored]
    ELSE IF stored.state = local.state THEN [err |-> Nil, stored |-> stored]
    ELSE [err |-> Nil,
          stored |-> [stored EXCEPT !.state = local.state, !.rv = stored.rv + 1]]

\* ------------------------------------------------------------------- state
VARIABLES
    datasets,     \* store: the Datasets by name
    plugins,      \* store: the DataPlugin descriptor under PluginName
    files,        \* the file at plugins/text/acme/plugin.yaml
    children,     \* store: child documents by identity
    revision,     \* store: the last version token handed out
    inv,          \* per worker: the Reconcile invocation in progress
    invocations,  \* Reconcile invocations started
    extWrites,    \* writes of other clients so far
    applies,      \* history: the applyClient calls that reached their write
    event         \* the update event the event filter was last given

vars == <<datasets, plugins, files, children, revision, inv, invocations,
          extWrites, applies, event>>

\* a worker between invocations; req is the Dataset its requests name, prev
\* how its invocation before this one ended
Idle == [pc |-> "idle", req |-> DatasetName, dataset |-> NoDataset,
         dataPlugin |-> NoPlugin,
         obj |-> NoObj, err |-> Nil, panicked |-> FALSE, failedStep |-> "",
         log |-> <<>>, startChildren |-> [k \in ChildKeys |-> NoObj],
         startDatasets |-> [n \in DatasetNames |-> Absent(n)],
         startExt |-> 0, prev |-> "none"]

\* a worker the controller does not run
Off == [Idle EXCEPT !.pc = "off"]

\* the object of an event: a Dataset, or an object of another type
EventObject(type, dataset) == [type |-> type, dataset |-> dataset]
NoEvent == [pc |-> "none", old |-> EventObject("Other", NoDataset),
            new |-> EventObject("Other", NoDataset), passed |-> FALSE]

\* one store call or file read, as the invocation's log keeps it
Call(op, kind, res, obj) ==
    [op |-> op, kind |-> kind, res |-> res,
     namespace |-> obj.namespace, owner |-> obj.owner, rv |-> obj.rv]

\* a Dataset as its author wrote it, its status not yet set
NewDataset(name, ns, ss, lp, b) ==
    [exists |-> TRUE, name |-> name, namespace |-> ns,
     subsets |-> ss, loadPlugin |-> lp, pluginName |-> PluginName,
     parameters |-> b, state |-> "", rv |-> 1]

\* the state after construction: the store as given, no invocation started
InitWith(ds, pl, fs, present, workers) ==
    /\ datasets = ds
    /\ plugins = pl
    /\ files = fs
    /\ children = [k \in ChildKeys |->
          IF present /\ k.namespace = DatasetNamespace
          THEN ExternalDoc(k, 1) ELSE NoObj]
    /\ revision = IF present THEN 1 ELSE 0
    /\ inv = workers
    /\ invocations = 0
    /\ extWrites = 0
    /\ applies = <<>>
    /\ event = NoEvent

\* inputs no invocation reads are held fixed: unless the Dataset exists and
\* asks for a plugin, the descriptor, the template and the parameters are not
\* looked at; unless the descriptor names the template, the last two are not
IsRead(d, pl, fs) ==
    LET named == pl.exists /\ PluginPath(pl) = TemplatePath
        usual == Template({"x", "completeNotifyUrl"}, TRUE, "", "")
    IN  /\ ~(d.exists /\ d.loadPlugin) => named
        /\ ~(d.exists /\ d.loadPlugin /\ named) =>
              /\ fs = usual
              /\ d.exists => d.parameters = "{\"x\":1}"

\* one worker (the controller's default), one Dataset name
Init ==
    \E d \in {NoDataset} \cup
              {NewDataset(DatasetName, DatasetNamespace, ss, lp, b) :
                 ss \in SubsetLists, lp \in BOOLEAN, b \in ParameterBlobs},
       pl \in Descriptors, fs \in Templates, present \in BOOLEAN :
        /\ IsRead(d, pl, fs)
        /\ InitWith([n \in DatasetNames |-> IF n = DatasetName THEN d ELSE Absent(n)],
                 pl, fs, present,
                 [p \in Procs |-> IF p = "r1" THEN Idle ELSE Off])

\* os.ReadFile
ReadFile(path) == IF path = TemplatePath THEN files ELSE NoFile

\* Reconcile line 84: the plugin stage runs when the Dataset asks for it,
\* otherwise Reconcile returns
PluginStage_Always(dataset) == "getPlugin"

PluginStage(dataset) == IF dataset.loadPlugin THEN "getPlugin" ELSE "done"

\* Reconcile lines 97-100: the error of applyYAML is the error of Reconcile
ReturnError_Swallow(err) == Nil

ReturnError(err) == err

\* applyClient lines 206-221: update what the read found, create what it did not
WriteBranch_Swapped(err) == IF err = Nil THEN "applyClientCreate" ELSE "applyClientUpdate"

WriteBranch(err) == IF err = Nil THEN "applyClientUpdate" ELSE "applyClientCreate"

\* applyClient lines 209-212: a failed update ends applyClient
AfterUpdate_Retry(err) == IF err = "Conflict" THEN "applyClientGet" ELSE "done"

AfterUpdate(err) == "done"

\* Reconcile returns err; step is the step that failed, if one did
Finish(r, err, step) == [r EXCEPT !.pc = "done", !.err = err, !.failedStep = step]

\* ----------------------------------------------------------------- actions

\* how an invocation ended
Outcome(r) ==
    IF r.pc = "idle" THEN "none"
    ELSE IF r.pc = "aborted" THEN "aborted"
    ELSE IF r.panicked THEN "panicked"
    ELSE IF r.err # Nil THEN "failed"
    ELSE "ok"

\* the control loop calls Reconcile for the Dataset
StartReconcile(p) ==
    /\ inv[p].pc \in {"idle", "done", "aborted"}
    /\ invocations < MaxInvocations
    /\ invocations' = invocations + 1
    /\ inv' = [inv EXCEPT ![p] =
          [Idle EXCEPT !.pc = "getDataset", !.req = inv[p].req,
                       !.startChildren = children, !.startDatasets = datasets,
                       !.startExt = extWrites, !.prev = Outcome(inv[p])]]
    /\ UNCHANGED <<event, datasets, plugins, files, children, revision, extWrites, applies>>

\* lines 66-80: fetch the Dataset and validate its subsets
GetDataset(p) ==
    /\ inv[p].pc = "getDataset"
    /\ \E fail \in BOOLEAN :
         LET stored == datasets[inv[p].req]
             err == IF fail THEN "StoreError"
                    ELSE IF stored.exists THEN Nil ELSE "NotFound"
             r == [inv[p] EXCEPT !.log = Append(@, Call("get", "Dataset", err, NoObj))]
         IN  inv' = [inv EXCEPT ![p] =
               IF err # Nil
               THEN Finish(r, IgnoreNotFound(err), "getDataset")
               ELSE IF ~isSubsetInfoValid(stored.subsets)
               THEN [r EXCEPT !.pc = "statusUpdate",
                              !.dataset = [stored EXCEPT !.state = DatasetUnready]]
               ELSE [r EXCEPT !.pc = PluginStage(stored), !.dataset = stored]]
    /\ UNCHANGED <<event, datasets, plugins, files, children, revision, invocations,
                   extWrites, applies>>

\* lines 76-79: write status UNREADY; Reconcile goes on after the write
StatusUpdate(p) ==
    /\ inv[p].pc = "statusUpdate"
    /\ \E fail \in BOOLEAN :
         LET u == IF fail THEN [err |-> "StoreError", stored |-> datasets[inv[p].req]]
                  ELSE StoreStatusUpdate(datasets[inv[p].req], inv[p].dataset)
             r == [inv[p] EXCEPT
                     !.log = Append(@, Call("statusUpdate", "Dataset", u.err, NoObj))]
         IN  /\ inv' = [inv EXCEPT ![p] =
                   IF u.err # Nil THEN Finish(r, u.err, "statusUpdate")
                   ELSE [r EXCEPT !.pc = PluginStage(r.dataset)]]
             /\ datasets' = [datasets EXCEPT ![inv[p].req] = u.stored]
    /\ UNCHANGED <<event, plugins, files, children, revision, invocations, extWrites, applies>>

\* lines 85-92: fetch the DataPlugin descriptor
GetPlugin(p) ==
    /\ inv[p].pc = "getPlugin"
    /\ \E fail \in BOOLEAN :
         LET err == IF fail THEN "StoreError"
                    ELSE IF plugins.exists /\ inv[p].dataset.pluginName = PluginName
                    THEN Nil ELSE "NotFound"
             r == [inv[p] EXCEPT !.log = Append(@, Call("get", "DataPlugin", err, NoObj))]
         IN  inv' = [inv EXCEPT ![p] =
               IF err # Nil
               THEN Finish(r, IgnoreNotFound(err), "getPlugin")
               ELSE [r EXCEPT !.pc = "applyYAML", !.dataPlugin = plugins]]
    /\ UNCHANGED <<event, datasets, plugins, files, children, revision, invocations,
                   extWrites, applies>>

\* lines 95-158: read the template, render, decode, stamp namespace and owner
applyYAML(p) ==
    /\ inv[p].pc = "applyYAML"
    /\ LET yamlFile == ReadFile(PluginPath(inv[p].dataPlugin))
           r == [inv[p] EXCEPT !.log = Append(@,
                   Call("readFile", "File",
                        IF yamlFile.exists THEN Nil ELSE "ReadError", NoObj))]
           b == applyYAMLBuild(yamlFile, r.dataset)
       IN  inv' = [inv EXCEPT ![p] =
              IF ~yamlFile.exists THEN Finish(r, ReturnError("ReadError"), "readFile")
              ELSE IF b.panic
              THEN [r EXCEPT !.pc = "done", !.panicked = TRUE, !.failedStep = b.step]
              ELSE IF b.err # Nil
              THEN Finish(r, ReturnError(b.err), b.step)
              ELSE [r EXCEPT !.pc = "applyClientGet", !.obj = b.obj]]
    /\ UNCHANGED <<event, datasets, plugins, files, children, revision, invocations,
                   extWrites, applies>>

\* applyClient lines 198-208: read the child document; what the read finds
\* decides the write, and an update carries the version token of the read
applyClientGet(p) ==
    /\ inv[p].pc = "applyClientGet"
    /\ \E fail \in BOOLEAN :
         LET g == IF fail THEN [err |-> "StoreError", obj |-> NoObj]
                  ELSE StoreGet(children, ObjectKey(inv[p].obj))
             r == [inv[p] EXCEPT !.log = Append(@,
                     Call("get", "Child", g.err, [inv[p].obj EXCEPT !.rv = g.obj.rv]))]
         IN  inv' = [inv EXCEPT ![p] =
               IF g.err # Nil /\ g.err # "NotFound"
               THEN Finish(r, ReturnError(g.err), "getChild")
               ELSE IF g.err = Nil
               THEN [r EXCEPT !.pc = WriteBranch(g.err),
                              !.obj = SetResourceVersion(@, g.obj.rv)]
               ELSE [r EXCEPT !.pc = WriteBranch(g.err)]]
    /\ UNCHANGED <<event, datasets, plugins, files, children, revision, invocations,
                   extWrites, applies>>

\* one applyClient call that reached its write, for the history
Applied(r, op, err, after) ==
    [obj |-> [r.obj EXCEPT !.rv = 0], rv |-> r.obj.rv, op |-> op, err |-> err,
     before |-> children, after |-> after, ext |-> extWrites]

\* applyClient lines 209-213: update the existing child document
applyClientUpdate(p) ==
    /\ inv[p].pc = "applyClientUpdate"
    /\ \E fail \in BOOLEAN :
         LET u == IF fail THEN [err |-> "StoreError", docs |-> children, rev |-> revision]
                  ELSE StoreUpdate(children, revision, inv[p].obj)
             r == [inv[p] EXCEPT !.log = Append(@, Call("update", "Child", u.err, inv[p].obj))]
         IN  /\ inv' = [inv EXCEPT ![p] =
                   IF u.err # Nil
                   THEN [Finish(r, ReturnError(u.err), "update") EXCEPT
                            !.pc = AfterUpdate(u.err)]
                   ELSE Finish(r, Nil, "")]
             /\ children' = u.docs
             /\ revision' = u.rev
             /\ applies' = Append(applies, Applied(r, "update", u.err, u.docs))
    /\ UNCHANGED <<event, datasets, plugins, files, invocations, extWrites>>

\* applyClient lines 216-220: create the child document
applyClientCreate(p) ==
    /\ inv[p].pc = "applyClientCreate"
    /\ \E fail \in BOOLEAN :
         LET c == IF fail THEN [err |-> "StoreError", docs |-> children, rev |-> revision]
                  ELSE StoreCreate(children, revision, inv[p].obj)
             r == [inv[p] EXCEPT !.log = Append(@, Call("create", "Child", c.err, inv[p].obj))]
         IN  /\ inv' = [inv EXCEPT ![p] =
                   IF c.err # Nil THEN Finish(r, ReturnError(c.err), "create")
                   ELSE Finish(r, Nil, "")]
             /\ children' = c.docs
             /\ revision' = c.rev
             /\ applies' = Append(applies, Applied(r, "create", c.err, c.docs))
    /\ UNCHANGED <<event, datasets, plugins, files, invocations, extWrites>>

\* another client of the store writes or deletes a child document of the
\* Dataset's namespace
ExternalWrite ==
    /\ extWrites < MaxExternalWrites
    /\ extWrites' = extWrites + 1
    /\ \E key \in {k \in ChildKeys : k.namespace = DatasetNamespace}, delete \in BOOLEAN :
         IF delete
         THEN /\ children[key].exists
              /\ children' = [children EXCEPT ![key] = NoObj]
              /\ revision' = revision
         ELSE /\ children' = [children EXCEPT ![key] = ExternalDoc(key, revision + 1)]
              /\ revision' = revision + 1
    /\ UNCHANGED <<event, datasets, plugins, files, inv, invocations, applies>>

Next ==
    \/ \E p \in Procs : StartReconcile(p)
    \/ \E p \in Procs : GetDataset(p)
    \/ \E p \in Procs : StatusUpdate(p)
    \/ \E p \in Procs : GetPlugin(p)
    \/ \E p \in Procs : applyYAML(p)
    \/ \E p \in Procs : applyClientGet(p)
    \/ \E p \in Procs : applyClientUpdate(p)
    \/ \E p \in Procs : applyClientCreate(p)
    \/ ExternalWrite

Spec == Init /\ [][Next]_vars

\* ------------------------------------------------------- two workers

\* two workers: the second reconciles the same Dataset or another one, which
\* lives in the same namespace or in another; both Datasets ask for the plugin
InitConc ==
    \E req2 \in DatasetNames, ns2 \in {DatasetNamespace, "other"},
       ss1 \in {<<>>, <<[train |-> "a", test |-> "a"]>>},
       b1 \in {"{}", "{\"x\":1}"}, b2 \in {"{}", "{\"x\":1}"}, present \in BOOLEAN :
        InitWith([n \in DatasetNames |->
                    IF n = DatasetName
                    THEN NewDataset(n, DatasetNamespace, ss1, TRUE, b1)
                    ELSE NewDataset(n, ns2, <<[train |-> "a", test |-> "a"]>>, TRUE, b2)],
                 [exists |-> TRUE, class |-> "text", provider |-> "acme"],
                 Template({"x", "completeNotifyUrl"}, TRUE, "", ""), present,
                 [p \in Procs |-> IF p = "r1" THEN Idle ELSE [Idle EXCEPT !.req = req2]])

NextConc ==
    \E p \in Procs :
        \/ StartReconcile(p)
        \/ GetDataset(p)
        \/ StatusUpdate(p)
        \/ GetPlugin(p)
        \/ applyYAML(p)
        \/ applyClientGet(p)
        \/ applyClientUpdate(p)
        \/ applyClientCreate(p)

SpecConc == InitConc /\ [][NextConc]_vars

\* ------------------------------------------------------------ event filter

\* Spec.DatasetMetadata.Plugin: the load flag, the plugin name, the parameters
PluginRef(dataset) == <<dataset.loadPlugin, dataset.pluginName, dataset.parameters>>

UpdateFunc_Any(old, new) == old # new

\* SetupWithManager lines 230-242: the filter of update events
UpdateFunc(old, new) ==
    IF old.type # "Dataset" THEN FALSE
    ELSE IF new.type # "Dataset" THEN FALSE
    ELSE PluginRef(old.dataset) # PluginRef(new.dataset)

\* the objects an update event may carry: Datasets that differ in any of
\* their fields, and an object of another type
EventDatasets ==
    {[NewDataset(DatasetName, DatasetNamespace, ss, lp, b)
        EXCEPT !.pluginName = pn, !.state = st] :
       ss \in {<<>>, <<[train |-> "a", test |-> "a"]>>}, lp \in BOOLEAN,
       b \in {"{}", "{\"x\":1}"}, pn \in {PluginName, "p2"}, st \in {"", DatasetUnready}}
EventObjects ==
    {EventObject("Dataset", d) : d \in EventDatasets} \cup {EventObject("Other", NoDataset)}

\* the event source hands an update event to the filter
Deliver ==
    /\ event.pc \in {"none", "filtered"}
    /\ \E old \in EventObjects, new \in EventObjects :
         event' = [pc |-> "delivered", old |-> old, new |-> new, passed |-> FALSE]
    /\ UNCHANGED <<datasets, plugins, files, children, revision, inv, invocations,
                   extWrites, applies>>

ApplyFilter ==
    /\ event.pc = "delivered"
    /\ event' = [event EXCEPT !.pc = "filtered",
                              !.passed = UpdateFunc(event.old, event.new)]
    /\ UNCHANGED <<datasets, plugins, files, children, revision, inv, invocations,
                   extWrites, applies>>

InitFilter ==
    InitWith([n \in DatasetNames |-> Absent(n)], NoPlugin,
             Template({"x", "completeNotifyUrl"}, TRUE, "", ""), FALSE,
             [p \in Procs |-> Off])

NextFilter == Deliver \/ ApplyFilter

SpecFilter == InitFilter /\ [][NextFilter]_vars

\* ------------------------------------------- Datasets edited, workers killed

\* what another client may change of a Dataset
Edits == {"subsetsValid", "subsetsEmpty", "toggleLoadPlugin", "parameters", "ready"}
ApplyEdit(dataset, edit) ==
    CASE edit = "subsetsValid" ->
            [dataset EXCEPT !.subsets = <<[train |-> "a", test |-> "a"]>>]
      [] edit = "subsetsEmpty" -> [dataset EXCEPT !.subsets = <<>>]
      [] edit = "toggleLoadPlugin" -> [dataset EXCEPT !.loadPlugin = ~@]
      [] edit = "parameters" ->
            [dataset EXCEPT !.parameters = IF @ = "{}" THEN "{\"x\":1}" ELSE "{}"]
      [] edit = "ready" -> [dataset EXCEPT !.state = "READY"]

\* another client of the store edits a Dataset
ExternalEdit ==
    /\ extWrites < MaxExternalWrites
    /\ extWrites' = extWrites + 1
    /\ \E n \in DatasetNames, edit \in Edits :
         /\ datasets[n].exists
         /\ ApplyEdit(datasets[n], edit) # datasets[n]
         /\ datasets' = [datasets EXCEPT ![n] =
               [ApplyEdit(datasets[n], edit) EXCEPT !.rv = @ + 1]]
    /\ UNCHANGED <<plugins, files, children, revision, inv, invocations, applies, event>>

\* the worker's process is killed between two calls of an invocation
Running(r) == r.pc \notin {"idle", "off", "done", "aborted"}
Abort(p) ==
    /\ Running(inv[p])
    /\ inv' = [inv EXCEPT ![p].pc = "aborted"]
    /\ UNCHANGED <<datasets, plugins, files, children, revision, invocations,
                   extWrites, applies, event>>

InitEdit ==
    \E ss \in {<<>>, <<[train |-> "a", test |-> "a"]>>}, lp \in BOOLEAN, b \in {"null", "{}", "{\"x\":1}"},
       fs \in {t \in Templates : t.wellFormed /\ t.owner = ""}, present \in BOOLEAN :
        InitWith([n \in DatasetNames |->
                    IF n = DatasetName
                    THEN NewDataset(DatasetName, DatasetNamespace, ss, lp, b)
                    ELSE Absent(n)],
                 [exists |-> TRUE, class |-> "text", provider |-> "acme"],
                 fs, present,
                 [p \in Procs |-> IF p = "r1" THEN Idle ELSE Off])

NextEdit ==
    \/ \E p \in Procs :
         \/ StartReconcile(p)
         \/ GetDataset(p)
         \/ StatusUpdate(p)
         \/ GetPlugin(p)
         \/ applyYAML(p)
         \/ applyClientGet(p)
         \/ applyClientUpdate(p)
         \/ applyClientCreate(p)
         \/ Abort(p)
    \/ ExternalEdit

SpecEdit == InitEdit /\ [][NextEdit]_vars

\* ------------------------------------------------------------------ claims

\* the calls of an invocation that are about a kind of object
CallsOf(r, kinds) == SelectSeq(r.log, LAMBDA c : c.kind \in kinds)
ChildCalls(r) == CallsOf(r, {"Child"})
ManifestCalls(r) == CallsOf(r, {"DataPlugin", "File", "Child"})
Fetched(r) == r.dataset.exists
NoCallFailed(r) == \A i \in 1..Len(r.log) : r.log[i].res = Nil
ChildKey == [kind |-> "Job", name |-> "loader", namespace |-> DatasetNamespace]

\* C1: a Dataset without a subset that has both files gets status UNREADY
\* and its invocation issues no plugin-descriptor read, no template read and
\* no child call, whatever LoadPlugin is.
C1_UnreadyStopsReconcile ==
    \A p \in Procs :
        (Fetched(inv[p]) /\ ~isSubsetInfoValid(inv[p].dataset.subsets)) =>
            /\ ManifestCalls(inv[p]) = <<>>
            /\ (inv[p].pc = "done" /\ NoCallFailed(inv[p])) =>
                   datasets[inv[p].req].state = DatasetUnready

\* C2: applyClient reads the child first; not-found is followed by exactly
\* one create and no update, a found document by exactly one update that
\* carries the version token of the read and no create.
C2_ReadThenOneWrite ==
    \A p \in Procs :
        LET cc == ChildCalls(inv[p]) IN
        /\ Len(cc) <= 2
        /\ Len(cc) >= 1 => cc[1].op = "get"
        /\ Len(cc) = 2 =>
              \/ cc[1].res = "NotFound" /\ cc[2].op = "create"
              \/ cc[1].res = Nil /\ cc[2].op = "update" /\ cc[2].rv = cc[1].rv
        /\ (inv[p].pc = "done" /\ Len(cc) >= 1 /\ cc[1].res \in {Nil, "NotFound"}) =>
              Len(cc) = 2

C2_Witness ==
    \E p \in Procs :
        LET cc == ChildCalls(inv[p]) IN
        /\ inv[p].pc = "done" /\ Len(cc) = 2
        /\ cc[1].res = Nil /\ cc[1].rv > 0
        /\ cc[2].op = "update" /\ cc[2].res = Nil /\ cc[2].rv = cc[1].rv

\* C3: an apply of the document that the apply before it wrote, with no
\* write of another client in between, succeeds as an update and leaves the
\* store as the first apply left it.
C3_ApplyIdempotent ==
    \A i \in 1..(Len(applies) - 1) :
        LET a == applies[i]
            b == applies[i + 1]
        IN  (a.err = Nil /\ b.obj = a.obj /\ b.ext = a.ext /\ b.err # "StoreError") =>
                /\ b.err = Nil
                /\ b.op = "update"
                /\ b.after = a.after

C3_Witness ==
    \E i \in 1..(Len(applies) - 1) :
        /\ applies[i].err = Nil /\ applies[i].op = "create"
        /\ applies[i + 1].obj = applies[i].obj
        /\ applies[i + 1].ext = applies[i].ext
        /\ applies[i + 1].err = Nil /\ applies[i + 1].op = "update"

\* C4: every child read, create or update is issued for a document whose
\* namespace is the Dataset's and whose controller owner is the Dataset; when
\* the owner reference cannot be set, no child call is issued.
C4_StampedBeforeStore ==
    \A p \in Procs :
        LET cc == ChildCalls(inv[p]) IN
        /\ \A i \in 1..Len(cc) :
              /\ cc[i].namespace = inv[p].dataset.namespace
              /\ cc[i].owner = inv[p].dataset.name
        /\ inv[p].failedStep = "setOwner" => cc = <<>>

C4_Witness ==
    \E p \in Procs :
        LET cc == ChildCalls(inv[p]) IN
        /\ files.namespace = "other"
        /\ Len(cc) = 2 /\ cc[2].op = "create" /\ cc[2].res = Nil
        /\ cc[2].namespace = DatasetNamespace /\ cc[2].owner = DatasetName

\* C5: with LoadPlugin=false an invocation issues no plugin-descriptor read,
\* no template read and no child call, and returns success when the Dataset
\* fetch and the status write (if any) succeeded.
C5_NoPluginNoManifestWork ==
    \A p \in Procs :
        (Fetched(inv[p]) /\ ~inv[p].dataset.loadPlugin) =>
            /\ ManifestCalls(inv[p]) = <<>>
            /\ inv[p].pc \in {"statusUpdate", "done"}
            /\ (inv[p].pc = "done" /\ NoCallFailed(inv[p])) =>
                   (inv[p].err = Nil /\ ~inv[p].panicked)

C5_Witness ==
    \E p \in Procs :
        /\ Fetched(inv[p]) /\ ~inv[p].dataset.loadPlugin
        /\ inv[p].pc = "done" /\ inv[p].err = Nil
        /\ Len(inv[p].log) = 2 /\ inv[p].log[2].op = "statusUpdate"
        /\ datasets[inv[p].req].state = DatasetUnready

\* C6: with LoadPlugin=true and no Plugin Descriptor in the store, Reconcile
\* returns success, issues no template read and no child call, and the child
\* documents are what they were when the invocation started.
C6_MissingDescriptorIsBenign ==
    \A p \in Procs :
        (\E i \in 1..Len(inv[p].log) :
            inv[p].log[i].kind = "DataPlugin" /\ inv[p].log[i].res = "NotFound") =>
            /\ inv[p].dataset.loadPlugin
            /\ inv[p].pc = "done" /\ inv[p].err = Nil /\ ~inv[p].panicked
            /\ CallsOf(inv[p], {"File", "Child"}) = <<>>
            /\ extWrites = inv[p].startExt => children = inv[p].startChildren

C6_Witness ==
    \E p \in Procs :
        /\ inv[p].pc = "done" /\ inv[p].dataset.loadPlugin /\ ~plugins.exists
        /\ Len(inv[p].log) >= 2
        /\ inv[p].log[Len(inv[p].log)].kind = "DataPlugin"
        /\ inv[p].log[Len(inv[p].log)].res = "NotFound"
        /\ children[ChildKey].exists

\* C7: when the Dataset read finds nothing Reconcile returns success, when it
\* fails otherwise Reconcile returns that error; either way the read is the
\* only call of the invocation.
C7_DatasetReadFailureEnds ==
    \A p \in Procs :
        (Len(inv[p].log) >= 1 /\ inv[p].log[1].res # Nil) =>
            /\ inv[p].log[1].op = "get" /\ inv[p].log[1].kind = "Dataset"
            /\ Len(inv[p].log) = 1
            /\ inv[p].pc = "done" /\ ~inv[p].panicked
            /\ inv[p].err = IF inv[p].log[1].res = "NotFound" THEN Nil
                            ELSE inv[p].log[1].res

C7_Witness ==
    \E p \in Procs :
        /\ ~datasets[inv[p].req].exists
        /\ inv[p].pc = "done" /\ inv[p].err = Nil
        /\ inv[p].log = <<Call("get", "Dataset", "NotFound", NoObj)>>

\* C8: with LoadPlugin=true and the descriptor present, the parameter blob
\* `null` is decoded to an empty mapping: Reconcile goes on to add
\* completeNotifyUrl, render and apply, without a decode failure and without
\* an abnormal termination.
C8_NullParametersProceed ==
    \A p \in Procs :
        (/\ \E i \in 1..Len(inv[p].log) :
               inv[p].log[i].kind = "File" /\ inv[p].log[i].res = Nil
         /\ inv[p].dataset.parameters = "null") =>
            (~inv[p].panicked /\ inv[p].failedStep \notin {"unmarshal", "inject"})

\* C9: with the descriptor present, a failure of the template read, the
\* parameter decode, the rendering, the manifest decode, the owner stamping,
\* the child read, the create or the update makes Reconcile return an error,
\* and no call is issued twice in the invocation.
PluginStageSteps ==
    {"readFile", "unmarshal", "render", "decode", "setOwner", "getChild",
     "create", "update"}

C9_PluginFailureIsReturned ==
    \A p \in Procs :
        /\ (inv[p].pc = "done" /\ inv[p].failedStep \in PluginStageSteps) =>
              (inv[p].err # Nil /\ ~inv[p].panicked)
        /\ \A i, j \in 1..Len(inv[p].log) :
              (inv[p].log[i].op = inv[p].log[j].op
                 /\ inv[p].log[i].kind = inv[p].log[j].kind) => i = j

C9_Witness ==
    \E p \in Procs :
        /\ inv[p].pc = "done" /\ inv[p].failedStep = "render"
        /\ inv[p].err = "TemplateResolutionError"
        /\ inv[p].dataset.parameters = "{}"

\* C10: an update whose version token another writer made stale is rejected
\* by the store; applyClient returns that rejection without another read or
\* update, and the store keeps the other writer's document.
C10_StaleUpdateRejected ==
    /\ \A i \in 1..Len(applies) :
          LET a == applies[i]
              stored == a.before[ObjectKey(a.obj)]
          IN  (a.op = "update" /\ a.err # "StoreError"
                 /\ stored.exists /\ stored.rv # a.rv) =>
                  (a.err = "Conflict" /\ a.after = a.before)
    /\ \A p \in Procs :
          LET cc == ChildCalls(inv[p]) IN
          (\E i \in 1..Len(cc) : cc[i].op = "update" /\ cc[i].res = "Conflict") =>
              /\ Len(cc) = 2 /\ cc[1].op = "get" /\ cc[2].op = "update"
              /\ inv[p].pc = "done" /\ inv[p].err = "Conflict"

C10_Witness ==
    \E p \in Procs :
        LET cc == ChildCalls(inv[p]) IN
        /\ inv[p].pc = "done" /\ inv[p].err = "Conflict"
        /\ Len(cc) = 2 /\ cc[2].op = "update" /\ cc[2].res = "Conflict"
        /\ children[ChildKey] = ExternalDoc(ChildKey, cc[2].rv + 1)

\* C11: an invocation that returns an error, with no write of another
\* client while it ran, leaves the Datasets and the child documents as they
\* were when it started.
C11_FailedInvocationLeavesStore ==
    \A p \in Procs :
        (inv[p].pc = "done" /\ inv[p].err # Nil /\ extWrites = inv[p].startExt) =>
            /\ datasets = inv[p].startDatasets
            /\ children = inv[p].startChildren

\* C12: a Dataset with a valid subset, LoadPlugin=true and a well-formed
\* parameter blob, its Plugin Descriptor and the template the descriptor
\* names present, the template's placeholders all supplied, no child document
\* and no store failure: the invocation ends with exactly one child document
\* created, its content the template rendered with the decoded parameters
\* and completeNotifyUrl, in the Dataset's namespace, owned by the Dataset,
\* and the Dataset's status not written.
WellFormedBlobs == {"null", "{}", "{\"x\":1}"}
SuppliedKeys(blob) == (IF blob = "{\"x\":1}" THEN {"x"} ELSE {}) \cup {"completeNotifyUrl"}
ExpectedContent(placeholders) ==
    [k \in placeholders |-> IF k = "completeNotifyUrl" THEN "http://notify" ELSE "1"]

C12_CreatesRenderedChild ==
    \A p \in Procs :
        LET r == inv[p]
            key == [kind |-> "Job", name |-> "loader", namespace |-> r.dataset.namespace]
        IN  (/\ r.pc = "done" /\ Fetched(r)
             /\ isSubsetInfoValid(r.dataset.subsets) /\ r.dataset.loadPlugin
             /\ r.dataset.parameters \in WellFormedBlobs
             /\ plugins = [exists |-> TRUE, class |-> "text", provider |-> "acme"]
             /\ files.wellFormed /\ files.owner = ""
             /\ files.placeholders \subseteq SuppliedKeys(r.dataset.parameters)
             /\ \A k \in ChildKeys : ~r.startChildren[k].exists
             /\ extWrites = r.startExt
             /\ \A i \in 1..Len(r.log) : r.log[i].res # "StoreError") =>
                /\ ~r.panicked /\ r.err = Nil
                /\ \A k \in ChildKeys : children[k].exists <=> k = key
                /\ children[key].content = ExpectedContent(files.placeholders)
                /\ children[key].namespace = r.dataset.namespace
                /\ children[key].owner = r.dataset.name
                /\ Len(ChildCalls(r)) = 2 /\ ChildCalls(r)[2].op = "create"
                /\ CallsOf(r, {"Dataset"}) = <<Call("get", "Dataset", Nil, NoObj)>>
                /\ datasets = r.startDatasets

\* C19: a successful update of a child document that existed, whoever wrote
\* it and whatever owner it had, leaves the stored document with the content
\* just rendered and the reconciled Dataset as its controller owner.
C19_UpdateReplacesWholesale ==
    \A i \in 1..Len(applies) :
        LET a == applies[i]
            key == ObjectKey(a.obj)
        IN  (a.op = "update" /\ a.err = Nil) =>
                /\ a.before[key].exists
                /\ a.after[key] = [a.obj EXCEPT !.rv = a.after[key].rv]
                /\ a.after[key].owner \in DatasetNames
                /\ \E p \in Procs :
                      /\ a.after[key].owner = inv[p].dataset.name
                      /\ a.after[key].namespace = inv[p].dataset.namespace
                      /\ a.after[key].content =
                            ExpectedContent(DOMAIN a.after[key].content)

C19_Witness ==
    \E i \in 1..Len(applies) :
        LET a == applies[i] IN
        /\ a.op = "update" /\ a.err = Nil
        /\ a.before[ChildKey].owner = "other-controller"
        /\ a.before[ChildKey].content # a.obj.content
        /\ a.after[ChildKey].owner = DatasetName
        /\ a.after[ChildKey].content = a.obj.content

\* C20: an invocation makes at most five store calls, each at most once, in
\* the order read Dataset, status update (only for invalid subsets), read
\* Plugin Descriptor (only with LoadPlugin), read child, create or update;
\* it can always take its next step until it has ended; a failed status
\* update ends it with that error, before any descriptor or child call.
StoreCalls(r) == SelectSeq(r.log, LAMBDA c : c.kind # "File")
Rank(c) ==
    CASE c.kind = "Dataset" /\ c.op = "get" -> 1
      [] c.kind = "Dataset" /\ c.op = "statusUpdate" -> 2
      [] c.kind = "DataPlugin" -> 3
      [] c.kind = "Child" /\ c.op = "get" -> 4
      [] OTHER -> 5
C20_BoundedOrderedCalls ==
    \A p \in Procs :
        LET r == inv[p]
            sc == StoreCalls(r)
        IN  /\ Len(sc) <= 5
            /\ Len(sc) >= 1 => Rank(sc[1]) = 1
            /\ \A i \in 1..(Len(sc) - 1) : Rank(sc[i]) < Rank(sc[i + 1])
            /\ \A i \in 1..Len(sc) :
                  /\ Rank(sc[i]) = 2 => ~isSubsetInfoValid(r.dataset.subsets)
                  /\ Rank(sc[i]) = 3 => r.dataset.loadPlugin
                  /\ Rank(sc[i]) = 4 => (i > 1 /\ Rank(sc[i - 1]) = 3)
                  /\ Rank(sc[i]) = 5 => (i > 1 /\ Rank(sc[i - 1]) = 4)
                  /\ (Rank(sc[i]) = 2 /\ sc[i].res # Nil) =>
                        /\ i = Len(sc) /\ r.pc = "done" /\ r.err = sc[i].res
                        /\ CallsOf(r, {"File"}) = <<>>
            /\ \A i \in 1..Len(sc) :
                  (r.pc = "done" /\ Rank(sc[i]) = 4 /\ sc[i].res \in {Nil, "NotFound"}) =>
                      (i + 1 = Len(sc) /\ Rank(sc[i + 1]) = 5)

C20_Witness ==
    \E p \in Procs :
        LET sc == StoreCalls(inv[p]) IN
        /\ inv[p].pc = "done" /\ inv[p].err = Nil /\ Len(sc) = 5
        /\ sc[2].op = "statusUpdate" /\ sc[5].op = "update"

\* C14: after an invocation that failed, panicked or was killed, an
\* invocation for the same Dataset that meets no store failure and no write
\* of another client, the Dataset asking for a plugin whose manifest can be
\* built, returns success and leaves the child document equal to the document
\* built from the Dataset and the Plugin Descriptor in the store.
SameButVersion(stored, obj) == stored = [obj EXCEPT !.rv = stored.rv]
Desired(name) == applyYAMLBuild(ReadFile(PluginPath(plugins)), datasets[name])
Healing(r) ==
    /\ r.pc = "done"
    /\ r.prev \in {"failed", "panicked", "aborted"}
    /\ extWrites = r.startExt
    /\ \A i \in 1..Len(r.log) : r.log[i].res # "StoreError"
    /\ datasets[r.req].exists /\ datasets[r.req].loadPlugin
    /\ plugins.exists /\ datasets[r.req].pluginName = PluginName
    /\ ReadFile(PluginPath(plugins)).exists
    /\ Desired(r.req).err = Nil /\ ~Desired(r.req).panic

C14_SelfHealing ==
    \A p \in Procs :
        Healing(inv[p]) =>
            /\ inv[p].err = Nil /\ ~inv[p].panicked
            /\ SameButVersion(children[ObjectKey(Desired(inv[p].req).obj)],
                              Desired(inv[p].req).obj)
            /\ Desired(inv[p].req).obj.owner = inv[p].req
            /\ Desired(inv[p].req).obj.namespace = datasets[inv[p].req].namespace

C14_Witness ==
    \E p \in Procs :
        /\ Healing(inv[p]) /\ inv[p].prev = "aborted"
        /\ inv[p].err = Nil
        /\ children # inv[p].startChildren
        /\ children[ChildKey].owner = DatasetName

\* C15: a step of Reconcile changes nothing of the store but the status of
\* the reconciled Dataset (by its status update) and a child document (by its
\* create or update): the specification of every Dataset, the Plugin
\* Descriptor and the template stay as they are and no document disappears.
SpecOf(dataset) == [dataset EXCEPT !.state = "", !.rv = 0]
LastCall(r) == r.log[Len(r.log)]
Issued(p, ops) ==
    /\ Len(inv'[p].log) = Len(inv[p].log) + 1
    /\ LastCall(inv'[p]).op \in ops
    /\ LastCall(inv'[p]).res = Nil

C15_OnlyStatusAndChildWrites ==
    [][extWrites' = extWrites =>
          /\ plugins' = plugins /\ files' = files
          /\ \A n \in DatasetNames : SpecOf(datasets'[n]) = SpecOf(datasets[n])
          /\ \A k \in ChildKeys : children[k].exists => children'[k].exists
          /\ datasets' # datasets =>
                \E p \in Procs :
                    /\ Issued(p, {"statusUpdate"})
                    /\ \A n \in DatasetNames \ {inv[p].req} : datasets'[n] = datasets[n]
          /\ children' # children =>
                \E p \in Procs : Issued(p, {"create", "update"})]_vars

C15_Witness ==
    \E p \in Procs :
        /\ inv[p].pc = "done" /\ inv[p].err = Nil
        /\ \E i \in 1..Len(inv[p].log) :
              inv[p].log[i].op = "statusUpdate" /\ inv[p].log[i].res = Nil
        /\ \E i \in 1..Len(inv[p].log) :
              inv[p].log[i].op = "update" /\ inv[p].log[i].res = Nil
        /\ datasets[inv[p].req].state = "UNREADY"
        /\ datasets[inv[p].req].loadPlugin
        /\ children # inv[p].startChildren

\* C18: the only status a step of Reconcile writes is UNREADY, so a Dataset
\* that is UNREADY stays UNREADY through every step of Reconcile, also once
\* its subsets have become valid.
C18_OnlyUnreadyWritten ==
    [][extWrites' = extWrites =>
          \A n \in DatasetNames :
              datasets'[n].state # datasets[n].state => datasets'[n].state = "UNREADY"]_vars

C18_Witness ==
    \E p \in Procs :
        /\ inv[p].pc = "done" /\ inv[p].err = Nil /\ inv[p].prev = "ok"
        /\ inv[p].dataset = datasets[inv[p].req]
        /\ isSubsetInfoValid(datasets[inv[p].req].subsets)
        /\ ~isSubsetInfoValid(inv[p].startDatasets[inv[p].req].subsets)
           \/ extWrites > 0
        /\ datasets[inv[p].req].state = "UNREADY"

\* C16: the event filter passes an update event exactly when old and new
\* object are both Datasets and their plugin references differ in the load
\* flag, the plugin name or the parameters; an event that changes only
\* subsets or status, or whose old or new object is no Dataset, is held back.
C16_FilterPassesPluginChanges ==
    event.pc = "filtered" =>
        (event.passed <=>
            /\ event.old.type = "Dataset" /\ event.new.type = "Dataset"
            /\ \/ event.old.dataset.loadPlugin # event.new.dataset.loadPlugin
               \/ event.old.dataset.pluginName # event.new.dataset.pluginName
               \/ event.old.dataset.parameters # event.new.dataset.parameters)

C16_Witness ==
    /\ event.pc = "filtered" /\ ~event.passed
    /\ event.old.type = "Dataset" /\ event.new.type = "Dataset"
    /\ event.old.dataset.subsets # event.new.dataset.subsets
    /\ event.old.dataset.state # event.new.dataset.state

\* C17: two invocations for the same Dataset whose child reads both found
\* nothing both issue a create; when the store fails neither, exactly one
\* create succeeds, the other invocation returns AlreadyExists, and the child
\* document in the store is the desired document.
Raced(r) ==
    /\ r.pc = "done"
    /\ \E i \in 1..Len(r.log) :
          r.log[i].kind = "Child" /\ r.log[i].op = "get" /\ r.log[i].res = "NotFound"
    /\ \E i \in 1..Len(r.log) :
          r.log[i].op = "create" /\ r.log[i].res # "StoreError"

C17_CreateRaceHasOneWinner ==
    \A p \in Procs, q \in Procs :
        (p # q /\ inv[p].req = inv[q].req /\ Raced(inv[p]) /\ Raced(inv[q])) =>
            /\ LastCall(inv[p]).op = "create" /\ LastCall(inv[q]).op = "create"
            /\ {LastCall(inv[p]).res, LastCall(inv[q]).res} = {Nil, "AlreadyExists"}
            /\ inv[p].err = LastCall(inv[p]).res /\ inv[q].err = LastCall(inv[q]).res
            /\ Cardinality({k \in ChildKeys : children[k].exists}) = 1
            /\ SameButVersion(children[ObjectKey(inv[p].obj)], Desired(inv[p].req).obj)

C17_Witness ==
    /\ inv["r1"].req = inv["r2"].req
    /\ Raced(inv["r1"]) /\ Raced(inv["r2"])
    /\ inv["r1"].err = "AlreadyExists" /\ inv["r2"].err = Nil
    /\ children[ChildKey].owner = DatasetName

\* C13: two invocations for two different Datasets, whatever their
\* interleaving, return what they return, and leave the child documents they
\* leave, in one of the two executions that run them one after the other.
\* The store fails no call and each worker has run one invocation.
RunAlone(name, docs, rev) ==
    LET d == datasets[name]
        f == ReadFile(PluginPath(plugins))
        b == applyYAMLBuild(f, d)
        stay(err, pan) == [err |-> err, panicked |-> pan, docs |-> docs, rev |-> rev]
    IN  IF ~d.exists \/ PluginStage(d) = "done" THEN stay(Nil, FALSE)
        ELSE IF ~(plugins.exists /\ d.pluginName = PluginName)
        THEN stay(IgnoreNotFound("NotFound"), FALSE)
        ELSE IF ~f.exists THEN stay(ReturnError("ReadError"), FALSE)
        ELSE IF b.panic THEN stay(Nil, TRUE)
        ELSE IF b.err # Nil THEN stay(ReturnError(b.err), FALSE)
        ELSE LET g == StoreGet(docs, ObjectKey(b.obj))
                 w == IF WriteBranch(g.err) = "applyClientUpdate"
                      THEN StoreUpdate(docs, rev, SetResourceVersion(b.obj, g.obj.rv))
                      ELSE StoreCreate(docs, rev, b.obj)
             IN  [err |-> ReturnError(w.err), panicked |-> FALSE,
                  docs |-> w.docs, rev |-> w.rev]

Unversioned(docs) == [k \in ChildKeys |-> [docs[k] EXCEPT !.rv = 0]]
FirstStore == IF applies = <<>> THEN children ELSE applies[1].before
FirstRevision == IF FirstStore[ChildKey].exists THEN FirstStore[ChildKey].rv ELSE 0
OneAfterTheOther(p, q) ==
    LET a == RunAlone(inv[p].req, FirstStore, FirstRevision)
        b == RunAlone(inv[q].req, a.docs, a.rev)
    IN  /\ inv[p].err = a.err /\ inv[p].panicked = a.panicked
        /\ inv[q].err = b.err /\ inv[q].panicked = b.panicked
        /\ Unversioned(children) = Unversioned(b.docs)
RanTogether(p, q) ==
    /\ inv[p].req # inv[q].req
    /\ inv[p].pc = "done" /\ inv[q].pc = "done"
    /\ invocations = 2
    /\ \A i \in 1..Len(inv[p].log) : inv[p].log[i].res # "StoreError"
    /\ \A i \in 1..Len(inv[q].log) : inv[q].log[i].res # "StoreError"

C13_ConcurrentIsSerial ==
    RanTogether("r1", "r2") => (OneAfterTheOther("r1", "r2") \/ OneAfterTheOther("r2", "r1"))

====
